---- MODULE Spec2Model ----
(***************************************************************************)
(* decaf-lsp: the document index of the language server (src/src/main.rs)  *)
(* and its position mapper (src/src/lib.rs).                               *)
(*                                                                         *)
(* The lexer, the parser and the type checker are external crates          *)
(* (syntax, typeck).  A document handed to the server is therefore an      *)
(* input record: its text, the tokens the lexer yields for it, the parse   *)
(* result (a program tree or a list of errors) and the type errors.        *)
(***************************************************************************)
EXTENDS Integers, Sequences, FiniteSets, TLC

VARIABLES
    files,   \* State.files: HashMap<Url, FileState>, a function on the URIs that have an entry
    last,    \* the handler that ran last: its request, its response, what it published
    call,    \* a function checked on its own: its name and arguments
    ret,     \* its return value, None before it returns
    inflight \* per thread, the update that has left its first lock section and
             \* not yet entered its second, None when there is none

vars == <<files, last, call, ret, inflight>>

(***************************************************************************)
(* Bounds                                                                  *)
(***************************************************************************)
\* common::Loc holds two u32; the model keeps the wrap-around at a narrower width.
LocBits == 5
\* longest name drawn when range_name is checked on its own
MaxNameLen == 3
\* longest annotation list drawn when the range query is checked on its own
MaxLen == 3

U32Mod == 2 ^ LocBits
U64Mod == U32Mod * U32Mod

None == <<>>
Some(x) == <<x>>

(***************************************************************************)
(* lib.rs: the position mapper                                             *)
(***************************************************************************)
Position(l, c) == [line |-> l, character |-> c]
Range(s, e) == [start |-> s, end |-> e]
Loc(l, c) == <<l, c>>

\* u32 addition and u64 subtraction as a release build computes them
U32Add(a, b) == (a + b) % U32Mod
U64Sub(a, b) == (a - b + U64Mod) % U64Mod

\* faulty variant: the zero guard dropped
pos_noguard(loc) == Position(U64Sub(loc[1], 1), U64Sub(loc[2], 1))

pos(loc) ==
    IF loc[1] = 0 \/ loc[2] = 0
    THEN Position(0, 0)
    ELSE Position(U64Sub(loc[1], 1), U64Sub(loc[2], 1))

range(loc) == Range(pos(loc), pos(loc))

\* faulty variant: the end is the start, the name's length forgotten
range_name_nolen(loc, name) == Range(pos(loc), pos(loc))

range_name(loc, name) ==
    Range(pos(loc), pos(Loc(loc[1], U32Add(loc[2], Len(name) % U32Mod))))

range2(loc, end) == Range(pos(loc), pos(end))

\* faulty variant: the end lies one character past the last one
token_past(tok) ==
    Range(Position(U64Sub(tok.line, 1), U64Sub(tok.col, 1)),
          Position(U64Sub(tok.line, 1),
                   U64Sub((tok.col + Len(tok.piece)) % U64Mod, 1)))

token(tok) ==
    Range(Position(U64Sub(tok.line, 1), U64Sub(tok.col, 1)),
          Position(U64Sub(tok.line, 1),
                   U64Sub(U64Sub((tok.col + Len(tok.piece)) % U64Mod, 1), 1)))

\* Position derives Ord: lexicographic on (line, character)
PosLe(a, b) == a.line < b.line \/ (a.line = b.line /\ a.character <= b.character)

(***************************************************************************)
(* main.rs: State, FileState                                               *)
(***************************************************************************)
\* FileState::default()
FileStateDefault ==
    [content |-> <<>>, symbols |-> <<>>, hovers |-> <<>>, ranges |-> <<>>,
     definitions |-> <<>>]

\* State::get_file: the entry of uri, inserted with the default value when vacant
get_file(fs, uri) ==
    IF uri \in DOMAIN fs
    THEN fs
    ELSE [u \in DOMAIN fs \cup {uri} |-> IF u = uri THEN FileStateDefault ELSE fs[u]]

Reverse(s) == [i \in 1..Len(s) |-> s[Len(s) + 1 - i]]

(***************************************************************************)
(* main.rs: the range query of hover and goto_definition.  An entry is a   *)
(* pair <<range, payload>>; result is the loop's Option<(Range, payload)>. *)
(***************************************************************************)
\* faulty variant: the end of the range is excluded
Contains_open(r, position) ==
    PosLe(r.start, position) /\ PosLe(position, r.end) /\ position # r.end

Contains(r, position) == PosLe(r.start, position) /\ PosLe(position, r.end)

\* faulty variant: an equal range does not count as nested
NestedIn_strict(r, old) == PosLe(r.end, old.end) /\ PosLe(old.start, r.start) /\ r # old

\* range.end <= old_range.end && range.start >= old_range.start
NestedIn(r, old) == PosLe(r.end, old.end) /\ PosLe(old.start, r.start)

RECURSIVE hover_scan_first(_, _, _, _)
\* faulty variant: the running best is never replaced
hover_scan_first(hovers, position, i, result) ==
    IF i > Len(hovers) THEN result
    ELSE hover_scan_first(hovers, position, i + 1,
            IF Contains(hovers[i][1], position) /\ result = None
            THEN Some(hovers[i]) ELSE result)

RECURSIVE hover_scan(_, _, _, _)
hover_scan(hovers, position, i, result) ==
    IF i > Len(hovers) THEN result
    ELSE hover_scan(hovers, position, i + 1,
            IF Contains(hovers[i][1], position)
            THEN IF result # None
                 THEN IF NestedIn(hovers[i][1], result[1][1])
                      THEN Some(hovers[i])
                      ELSE result
                 ELSE Some(hovers[i])
            ELSE result)

\* Ok(result.map(|res| res.1))
hover(hovers, position) ==
    LET result == hover_scan(hovers, position, 1, None)
    IN  IF result = None THEN None ELSE Some(result[1][2])

RECURSIVE definition_scan_last(_, _, _, _)
\* faulty variant: every containing entry replaces the running best
definition_scan_last(definitions, position, i, result) ==
    IF i > Len(definitions) THEN result
    ELSE definition_scan_last(definitions, position, i + 1,
            IF Contains(definitions[i][1], position)
            THEN Some(definitions[i]) ELSE result)

RECURSIVE definition_scan(_, _, _, _)
definition_scan(definitions, position, i, result) ==
    IF i > Len(definitions) THEN result
    ELSE definition_scan(definitions, position, i + 1,
            IF Contains(definitions[i][1], position)
            THEN IF result # None
                 THEN IF NestedIn(definitions[i][1], result[1][1])
                      THEN Some(definitions[i])
                      ELSE result
                 ELSE Some(definitions[i])
            ELSE result)

\* GotoDefinitionResponse::Scalar(Location { uri, range: res.1 })
goto_definition(definitions, uri, position) ==
    LET result == definition_scan(definitions, position, 1, None)
    IN  IF result = None THEN None
        ELSE Some([uri |-> uri, range |-> result[1][2]])

(***************************************************************************)
(* main.rs: completion.  Text is a sequence of one-character strings.      *)
(***************************************************************************)
Alphabetic ==
    {"a","b","c","d","e","f","g","h","i","j","k","l","m","n","o","p","q","r","s",
     "t","u","v","w","x","y","z","A","B","C","D","E","F","G","H","I","J","K","L",
     "M","N","O","P","Q","R","S","T","U","V","W","X","Y","Z"}

\* content.split("\n"): always at least one piece
RECURSIVE SplitLines(_, _, _)
SplitLines(content, i, cur) ==
    IF i > Len(content) THEN <<cur>>
    ELSE IF content[i] = "\n"
         THEN <<cur>> \o SplitLines(content, i + 1, <<>>)
         ELSE SplitLines(content, i + 1, Append(cur, content[i]))

\* part.rmatches(char::is_alphabetic).next(): the last alphabetic character of
\* part, as a one-character text
LastAlphabetic(part) ==
    LET hits == {i \in 1..Len(part) : part[i] \in Alphabetic}
    IN  IF hits = {} THEN None
        ELSE Some(<<part[CHOOSE i \in hits : \A j \in hits : j <= i]>>)

Builtins ==
    << [label |-> "Print", chars |-> <<"P","r","i","n","t">>],
       [label |-> "ReadInteger",
        chars |-> <<"R","e","a","d","I","n","t","e","g","e","r">>],
       [label |-> "ReadLine", chars |-> <<"R","e","a","d","L","i","n","e">>] >>

StartsWith(chars, name) ==
    Len(name) <= Len(chars) /\ SubSeq(chars, 1, Len(name)) = name

RECURSIVE complete_from(_, _)
complete_from(i, name) ==
    IF i > Len(Builtins) THEN <<>>
    ELSE (IF StartsWith(Builtins[i].chars, name)
          THEN << [label |-> Builtins[i].label,
                   insert_text |-> IF Builtins[i].label = "Print"
                                   THEN Builtins[i].label \o "($1)"
                                   ELSE Builtins[i].label \o "()"] >>
          ELSE <<>>) \o complete_from(i + 1, name)

complete(name) == complete_from(1, name)

\* the cursor lies on the line: &line[..position.character] is a valid slice
CursorOnText(content, position) ==
    LET lines == SplitLines(content, 1, <<>>)
    IN  position.line < Len(lines) => position.character <= Len(lines[position.line + 1])

completion(content, position) ==
    LET lines == SplitLines(content, 1, <<>>)
    IN  IF position.line < Len(lines)
        THEN LET part == SubSeq(lines[position.line + 1], 1, position.character)
                 name == LastAlphabetic(part)
             IN  IF name # None THEN Some(complete(name[1])) ELSE None
        ELSE None

(***************************************************************************)
(* main.rs: the AST indexer.  Every function takes the FileState it pushes *)
(* onto and yields the FileState after its pushes.                         *)
(*   expression  [kind, loc, ...]; a VarSel carries varsel = [name, ty,    *)
(*               owner : Option<expr>, var : Option<[name, loc, ty]>]      *)
(*   ty          the Debug rendering of the type cell                      *)
(***************************************************************************)
U32Sub(a, b) == (a - b + U32Mod) % U32Mod

PushHover(state, h) == [state EXCEPT !.hovers = Append(@, h)]
PushSymbol(state, sym) == [state EXCEPT !.symbols = Append(@, sym)]
PushDefinition(state, d) == [state EXCEPT !.definitions = Append(@, d)]

Hover(contents, r) == [contents |-> contents, range |-> r]

RECURSIVE expr(_, _), exprs(_, _, _), varsel(_, _, _)

expr(e, state) ==
    CASE e.kind = "VarSel" -> varsel(e.loc, e.varsel, state)
      [] e.kind = "IndexSel" -> expr(e.idx, expr(e.arr, state))
      [] e.kind = "Call" -> exprs(e.arg, 1, expr(e.func, state))
      [] e.kind = "Unary" -> expr(e.r, state)
      [] e.kind = "Binary" -> expr(e.r, expr(e.l, state))
      [] OTHER -> state

exprs(es, i, state) ==
    IF i > Len(es) THEN state ELSE exprs(es, i + 1, expr(es[i], state))

\* faulty variant: the link targets the declaration's start point only
varsel_point(loc, v, state) ==
    LET s1 == PushHover(state,
                  <<range_name(loc, v.name),
                    Hover(v.name \o ": " \o v.ty, Some(range(loc)))>>)
        s2 == IF v.owner # None THEN expr(v.owner[1], s1) ELSE s1
    IN  IF v.var # None
        THEN PushDefinition(s2, <<range_name(loc, v.name), range(v.var[1].loc)>>)
        ELSE s2

varsel(loc, v, state) ==
    LET s1 == PushHover(state,
                  <<range_name(loc, v.name),
                    Hover(v.name \o ": " \o v.ty, Some(range(loc)))>>)
        s2 == IF v.owner # None THEN expr(v.owner[1], s1) ELSE s1
    IN  IF v.var # None
        THEN PushDefinition(s2,
                 <<range_name(loc, v.name), range_name(v.var[1].loc, v.var[1].name)>>)
        ELSE s2

var(v, state) ==
    PushHover(state,
        <<range_name(v.loc, v.name), Hover(v.name \o ": " \o v.ty, Some(range(v.loc)))>>)

vars_(vs, state) ==
    LET RECURSIVE go(_, _)
        go(i, st) == IF i > Len(vs) THEN st ELSE go(i + 1, var(vs[i], st))
    IN  go(1, state)

RECURSIVE stmt(_, _), block(_, _), stmts(_, _, _)

stmt(s, state) ==
    CASE s.kind = "Assign" -> expr(s.src, expr(s.dst, state))
      [] s.kind = "LocalVarDef" ->
            LET s1 == var(s.var, state)
            IN  IF s.var.init # None THEN expr(s.var.init[1], s1) ELSE s1
      [] s.kind = "ExprEval" -> expr(s.expr, state)
      [] s.kind = "If" ->
            LET s1 == block(s.on_true, expr(s.cond, state))
            IN  IF s.on_false # None THEN block(s.on_false[1], s1) ELSE s1
      [] s.kind = "While" -> block(s.body, expr(s.cond, state))
      [] s.kind = "For" ->
            block(s.body, stmt(s.update, expr(s.cond, stmt(s.init, state))))
      [] s.kind = "Return" ->
            IF s.expr # None THEN expr(s.expr[1], state) ELSE state
      [] s.kind = "Print" -> exprs(s.exprs, 1, state)
      [] s.kind = "Block" -> block(s.block, state)
      [] OTHER -> state

stmts(ss, i, state) ==
    IF i > Len(ss) THEN state ELSE stmts(ss, i + 1, stmt(ss[i], state))

block(b, state) == stmts(b.stmt, 1, state)

SymbolInformation(name, kind, uri, r, container) ==
    [name |-> name, kind |-> kind, location |-> [uri |-> uri, range |-> r],
     container_name |-> container]

field(uri, class, f, state) ==
    IF f.kind = "FuncDef"
    THEN LET func == f.func
             s1 == PushSymbol(state,
                       SymbolInformation(func.name, "Method", uri, range(func.loc),
                                         Some(class.name)))
             s2 == PushHover(s1,
                       <<range_name(func.loc, func.name),
                         Hover(func.name \o ": " \o func.sig, Some(range(func.loc)))>>)
         IN  block(func.body, vars_(func.param, s2))
    ELSE var(f.var,
             PushSymbol(state,
                 SymbolInformation(f.var.name, "Field", uri, range(f.var.loc),
                                   Some(class.name))))

class_(uri, class, state) ==
    LET class_range == range2(class.loc, class.end)
        s1 == PushSymbol(state,
                  SymbolInformation(class.name, "Class", uri, class_range, None))
        s2 == PushHover(s1,
                  <<range_name(class.loc, class.name),
                    Hover(class.name, Some(class_range))>>)
        s3 == [s2 EXCEPT !.ranges =
                  Append(@, [start_line |-> U32Sub(class.loc[1], 1),
                             end_line |-> U32Sub(class.end[1], 1)])]
        RECURSIVE fields(_, _)
        fields(i, st) ==
            IF i > Len(class.field) THEN st
            ELSE fields(i + 1, field(uri, class, class.field[i], st))
    IN  fields(1, s3)

program(uri, prog, state) ==
    LET RECURSIVE classes(_, _)
        classes(i, st) ==
            IF i > Len(prog.class) THEN st
            ELSE classes(i + 1, class_(uri, prog.class[i], st))
    IN  classes(1, state)

(***************************************************************************)
(* main.rs: update                                                         *)
(***************************************************************************)
\* the token kinds update skips
SkippedTokens ==
    {"Id", "Le", "Ge", "Eq", "Ne", "And", "Add", "Sub", "Mul", "Div", "Mod", "Assign",
     "Lt", "Gt", "Dot", "Comma", "Semi", "Not", "LPar", "RPar", "LBrk", "RBrk", "LBrc",
     "RBrc", "Colon"}

TokenLabel(ty) ==
    CASE ty = "IntLit" -> "Integer Literal"
      [] ty = "StringLit" -> "String Literal"
      [] ty = "UntermString" -> "Unterminated String Literal"
      [] OTHER -> ty

\* the lexer loop: stops at the first _Eof, skips, pushes one hover per kept token
RECURSIVE token_hovers(_, _, _)
token_hovers(tokens, i, hovers) ==
    IF i > Len(tokens) \/ tokens[i].ty = "_Eof" THEN hovers
    ELSE IF tokens[i].ty \in SkippedTokens
         THEN token_hovers(tokens, i + 1, hovers)
         ELSE token_hovers(tokens, i + 1,
                  Append(hovers,
                         <<token(tokens[i]), Hover(TokenLabel(tokens[i].ty), None)>>))

\* faulty variant: the token hovers are appended to the stored list
update_lock1_append(fs, uri, doc) ==
    LET f1 == get_file(fs, uri)
    IN  [f1 EXCEPT ![uri].hovers = @ \o token_hovers(doc.tokens, 1, <<>>),
                   ![uri].content = doc.content]

\* first lock section: hovers and content are stored
update_lock1(fs, uri, doc) ==
    LET f1 == get_file(fs, uri)
    IN  [f1 EXCEPT ![uri].hovers = token_hovers(doc.tokens, 1, <<>>),
                   ![uri].content = doc.content]

Diagnostic(err) == [range |-> range(err.loc), message |-> err.msg]

Diagnostics(errors) == [i \in 1..Len(errors) |-> Diagnostic(errors[i])]

\* faulty variant: a failed parse publishes nothing
update_publish_silent(uri, doc) ==
    IF doc.parse.ok
    THEN << [uri |-> uri, diag |-> Diagnostics(doc.typeck)] >>
    ELSE << >>

\* the publish_diagnostics calls of update, in order
update_publish(uri, doc) ==
    IF doc.parse.ok
    THEN << [uri |-> uri, diag |-> Diagnostics(doc.typeck)] >>
    ELSE << [uri |-> uri, diag |-> Diagnostics(doc.parse.errors)] >>

\* faulty variant: the symbols are left in the order they were pushed
file_state_of_noreverse(uri, prog) == program(uri, prog, FileStateDefault)

\* the index built from the program: program(), then symbols.reverse()
file_state_of(uri, prog) ==
    LET st == program(uri, prog, FileStateDefault)
    IN  [st EXCEPT !.symbols = Reverse(@)]

\* faulty variant: the AST hovers take the place of the stored hover list
update_lock2_replace(fs, uri, doc) ==
    IF doc.parse.ok
    THEN LET file_state == file_state_of(uri, doc.parse.program)
             f1 == get_file(fs, uri)
         IN  [f1 EXCEPT ![uri].symbols = file_state.symbols,
                        ![uri].hovers = file_state.hovers,
                        ![uri].ranges = file_state.ranges,
                        ![uri].definitions = file_state.definitions]
    ELSE fs

\* faulty variant: a text with type errors is not indexed
update_lock2_typeck(fs, uri, doc) ==
    IF doc.parse.ok /\ doc.typeck = <<>>
    THEN LET file_state == file_state_of(uri, doc.parse.program)
             f1 == get_file(fs, uri)
         IN  [f1 EXCEPT ![uri].symbols = file_state.symbols,
                        ![uri].hovers = @ \o file_state.hovers,
                        ![uri].ranges = file_state.ranges,
                        ![uri].definitions = file_state.definitions]
    ELSE fs

\* faulty variant: a failed parse clears the symbols and the definitions
update_lock2_clear(fs, uri, doc) ==
    IF doc.parse.ok
    THEN LET file_state == file_state_of(uri, doc.parse.program)
             f1 == get_file(fs, uri)
         IN  [f1 EXCEPT ![uri].symbols = file_state.symbols,
                        ![uri].hovers = @ \o file_state.hovers,
                        ![uri].ranges = file_state.ranges,
                        ![uri].definitions = file_state.definitions]
    ELSE [fs EXCEPT ![uri].symbols = <<>>, ![uri].definitions = <<>>]

\* second lock section, taken only when the parse succeeded
update_lock2(fs, uri, doc) ==
    IF doc.parse.ok
    THEN LET file_state == file_state_of(uri, doc.parse.program)
             f1 == get_file(fs, uri)
         IN  [f1 EXCEPT ![uri].symbols = file_state.symbols,
                        ![uri].hovers = @ \o file_state.hovers,
                        ![uri].ranges = file_state.ranges,
                        ![uri].definitions = file_state.definitions]
    ELSE fs

\* update run alone, start to end
update(fs, uri, doc) == update_lock2(update_lock1(fs, uri, doc), uri, doc)

\* faulty variant: close drops the definition links too
did_close_all(fs, uri) ==
    IF uri \in DOMAIN fs
    THEN [fs EXCEPT ![uri].symbols = <<>>, ![uri].definitions = <<>>]
    ELSE fs

\* faulty variant: close drops the symbols of every file
did_close_everywhere(fs, uri) ==
    [u \in DOMAIN fs |-> [fs[u] EXCEPT !.symbols = <<>>]]

did_close(fs, uri) ==
    IF uri \in DOMAIN fs THEN [fs EXCEPT ![uri].symbols = <<>>] ELSE fs

(***************************************************************************)
(* Documents: what the lexer, the parser and the type checker yield for a  *)
(* text.  Locations are 1-based; a class is located at its keyword, a      *)
(* method, a variable and a reference at the name.                         *)
(***************************************************************************)
Tok(ty, piece, line, col) == [ty |-> ty, piece |-> piece, line |-> line, col |-> col]
Err(loc, msg) == [loc |-> loc, msg |-> msg]
VarDef(name, loc, ty) == [name |-> name, loc |-> loc, ty |-> ty, init |-> None]
VarSelExpr(loc, name, ty, v) ==
    [kind |-> "VarSel", loc |-> loc,
     varsel |-> [name |-> name, ty |-> ty, owner |-> None, var |-> v]]
ParseOk(prog) == [ok |-> TRUE, program |-> prog]
ParseErr(errors) == [ok |-> FALSE, errors |-> errors]

\* 'class Main { void main() { } }'
TextMain ==
    <<"c","l","a","s","s"," ","M","a","i","n"," ","{"," ","v","o","i","d"," ","m","a",
    "i","n","(",")"," ","{"," ","}"," ","}">>
TokensMain ==
    << Tok("Class", "class", 1, 1),
       Tok("Id", "Main", 1, 7),
       Tok("LBrc", "{", 1, 12),
       Tok("Void", "void", 1, 14),
       Tok("Id", "main", 1, 19),
       Tok("LPar", "(", 1, 23),
       Tok("RPar", ")", 1, 24),
       Tok("LBrc", "{", 1, 26),
       Tok("RBrc", "}", 1, 28),
       Tok("RBrc", "}", 1, 30),
       Tok("_Eof", "", 1, 31) >>

\* 'class Main {\n static void main() {\n  int x;\n  x = x + 1;\n }\n}'
TextVar ==
    <<"c","l","a","s","s"," ","M","a","i","n"," ","{","\n"," ","s","t","a","t","i","c",
    " ","v","o","i","d"," ","m","a","i","n","(",")"," ","{","\n"," "," ","i","n","t"," ",
    "x",";","\n"," "," ","x"," ","="," ","x"," ","+"," ","1",";","\n"," ","}","\n","}">>
TokensVar ==
    << Tok("Class", "class", 1, 1),
       Tok("Id", "Main", 1, 7),
       Tok("LBrc", "{", 1, 12),
       Tok("Static", "static", 2, 2),
       Tok("Void", "void", 2, 9),
       Tok("Id", "main", 2, 14),
       Tok("LPar", "(", 2, 18),
       Tok("RPar", ")", 2, 19),
       Tok("LBrc", "{", 2, 21),
       Tok("Int", "int", 3, 3),
       Tok("Id", "x", 3, 7),
       Tok("Semi", ";", 3, 8),
       Tok("Id", "x", 4, 3),
       Tok("Assign", "=", 4, 5),
       Tok("Id", "x", 4, 7),
       Tok("Add", "+", 4, 9),
       Tok("IntLit", "1", 4, 11),
       Tok("Semi", ";", 4, 12),
       Tok("RBrc", "}", 5, 2),
       Tok("RBrc", "}", 6, 1),
       Tok("_Eof", "", 6, 2) >>

\* 'class A {\n int f;\n void m() {\n  f = y;\n }\n}\nclass B { }'
TextTwo ==
    <<"c","l","a","s","s"," ","A"," ","{","\n"," ","i","n","t"," ","f",";","\n"," ","v",
    "o","i","d"," ","m","(",")"," ","{","\n"," "," ","f"," ","="," ","y",";","\n"," ",
    "}","\n","}","\n","c","l","a","s","s"," ","B"," ","{"," ","}">>
TokensTwo ==
    << Tok("Class", "class", 1, 1),
       Tok("Id", "A", 1, 7),
       Tok("LBrc", "{", 1, 9),
       Tok("Int", "int", 2, 2),
       Tok("Id", "f", 2, 6),
       Tok("Semi", ";", 2, 7),
       Tok("Void", "void", 3, 2),
       Tok("Id", "m", 3, 7),
       Tok("LPar", "(", 3, 8),
       Tok("RPar", ")", 3, 9),
       Tok("LBrc", "{", 3, 11),
       Tok("Id", "f", 4, 3),
       Tok("Assign", "=", 4, 5),
       Tok("Id", "y", 4, 7),
       Tok("Semi", ";", 4, 8),
       Tok("RBrc", "}", 5, 2),
       Tok("RBrc", "}", 6, 1),
       Tok("Class", "class", 7, 1),
       Tok("Id", "B", 7, 7),
       Tok("LBrc", "{", 7, 9),
       Tok("RBrc", "}", 7, 11),
       Tok("_Eof", "", 7, 12) >>

\* 'class Main {'
TextBad ==
    <<"c","l","a","s","s"," ","M","a","i","n"," ","{">>
TokensBad ==
    << Tok("Class", "class", 1, 1),
       Tok("Id", "Main", 1, 7),
       Tok("LBrc", "{", 1, 12),
       Tok("_Eof", "", 1, 13) >>

\* 'Pri'
TextPri ==
    <<"P","r","i">>
TokensPri ==
    << Tok("Id", "Pri", 1, 1),
       Tok("_Eof", "", 1, 4) >>

ProgramMain ==
    [class |-> <<
        [name |-> "Main", loc |-> Loc(1, 1), end |-> Loc(1, 30),
         field |-> <<
            [kind |-> "FuncDef",
             func |-> [name |-> "main", loc |-> Loc(1, 19), sig |-> "void()",
                       param |-> <<>>, body |-> [stmt |-> <<>>]]] >>] >>]

ProgramVar ==
    LET x == VarDef("x", Loc(3, 7), "int")
    IN  [class |-> <<
            [name |-> "Main", loc |-> Loc(1, 1), end |-> Loc(6, 1),
             field |-> <<
                [kind |-> "FuncDef",
                 func |-> [name |-> "main", loc |-> Loc(2, 14), sig |-> "void()",
                           param |-> <<>>,
                           body |-> [stmt |-> <<
                              [kind |-> "LocalVarDef", var |-> x],
                              [kind |-> "Assign",
                               dst |-> VarSelExpr(Loc(4, 3), "x", "int", Some(x)),
                               src |-> [kind |-> "Binary", loc |-> Loc(4, 9),
                                        l |-> VarSelExpr(Loc(4, 7), "x", "int", Some(x)),
                                        r |-> [kind |-> "IntLit", loc |-> Loc(4, 11)]]]
                              >>]]] >>] >>]

ProgramTwo ==
    LET f == VarDef("f", Loc(2, 6), "int")
    IN  [class |-> <<
            [name |-> "A", loc |-> Loc(1, 1), end |-> Loc(6, 1),
             field |-> <<
                [kind |-> "VarDef", var |-> f],
                [kind |-> "FuncDef",
                 func |-> [name |-> "m", loc |-> Loc(3, 7), sig |-> "void()",
                           param |-> <<>>,
                           body |-> [stmt |-> <<
                              [kind |-> "Assign",
                               dst |-> VarSelExpr(Loc(4, 3), "f", "int", Some(f)),
                               src |-> VarSelExpr(Loc(4, 7), "y", "error", None)]
                              >>]]] >>],
            [name |-> "B", loc |-> Loc(7, 1), end |-> Loc(7, 11), field |-> <<>>] >>]

Docs ==
    [Main |-> [content |-> TextMain, tokens |-> TokensMain,
               parse |-> ParseOk(ProgramMain), typeck |-> <<>>],
     Var  |-> [content |-> TextVar, tokens |-> TokensVar,
               parse |-> ParseOk(ProgramVar), typeck |-> <<>>],
     Two  |-> [content |-> TextTwo, tokens |-> TokensTwo,
               parse |-> ParseOk(ProgramTwo),
               typeck |-> <<Err(Loc(4, 7), "UndeclaredVar(\"y\")")>>],
     Bad  |-> [content |-> TextBad, tokens |-> TokensBad,
               parse |-> ParseErr(<<Err(Loc(1, 13), "SyntaxError")>>), typeck |-> <<>>],
     Pri  |-> [content |-> TextPri, tokens |-> TokensPri,
               parse |-> ParseErr(<<Err(Loc(1, 1), "SyntaxError")>>), typeck |-> <<>>]]

DocIds == DOMAIN Docs
Uris == {"file:///a.decaf", "file:///b.decaf"}

\* the texts a document receives: every text for the first document, one that
\* parses and one that does not for the second
TextsOf(uri) == IF uri = "file:///a.decaf" THEN DocIds ELSE {"Main", "Bad"}

\* the positions queried: on the class keyword, on a method name, on a
\* declaration, on the start and the inclusive end of a reference, on a second
\* reference
QueryPositions ==
    {Position(0, 0), Position(0, 20), Position(2, 6), Position(3, 2), Position(3, 3),
     Position(3, 6)}

\* the cursor positions of completion requests
CompletionPositions == {Position(l, c) : l \in 0..1, c \in {0, 1, 3}}

(***************************************************************************)
(* The server: one action per handler of the LanguageServer impl.  Each    *)
(* handler runs start to end before the next one starts.                   *)
(***************************************************************************)
Request(op, uri, doc, position, response, published, again) ==
    [op |-> op, uri |-> uri, doc |-> doc, position |-> position,
     response |-> response, published |-> published, again |-> again]

NoRequest == Request("none", "", "", None, None, <<>>, FALSE)

UpdateOps == {"did_open", "did_change"}

\* this update hands uri the text the previous request handed it
Again(uri, d) == last.op \in UpdateOps /\ last.uri = uri /\ last.doc = d

\* the update calls that may be in flight at once
Updaters == {"u1", "u2"}

\* no update is between its lock sections
Idle == [t \in Updaters |-> None]

Init ==
    /\ files = << >>
    /\ last = NoRequest
    /\ call = [fn |-> "none"]
    /\ ret = None
    /\ inflight = Idle

\* did_open: the text is read from the file system; nothing happens when it
\* cannot be read
DidOpen(uri, read) ==
    /\ IF read = None
       THEN /\ files' = files
            /\ last' = Request("did_open", uri, "", None, None, <<>>, FALSE)
       ELSE /\ files' = update(files, uri, Docs[read[1]])
            /\ last' = Request("did_open", uri, read[1], None, None,
                               update_publish(uri, Docs[read[1]]), Again(uri, read[1]))
    /\ UNCHANGED <<call, ret, inflight>>

DidChange(uri, d) ==
    /\ files' = update(files, uri, Docs[d])
    /\ last' = Request("did_change", uri, d, None, None, update_publish(uri, Docs[d]),
                       Again(uri, d))
    /\ UNCHANGED <<call, ret, inflight>>

DidClose(uri) ==
    /\ files' = did_close(files, uri)
    /\ last' = Request("did_close", uri, "", None, None,
                       << [uri |-> uri, diag |-> <<>>] >>, FALSE)
    /\ UNCHANGED <<call, ret, inflight>>

\* the responses of the queries; each query takes its file with get_file
hover_response(fs, uri, position) == hover(get_file(fs, uri)[uri].hovers, position)

definition_response(fs, uri, position) ==
    goto_definition(get_file(fs, uri)[uri].definitions, uri, position)

document_symbol(fs, uri) == Some(get_file(fs, uri)[uri].symbols)

completion_response(fs, uri, position) ==
    completion(get_file(fs, uri)[uri].content, position)

HoverRequest(uri, position) ==
    /\ files' = get_file(files, uri)
    /\ last' = Request("hover", uri, "", Some(position),
                       hover_response(files, uri, position), <<>>, FALSE)
    /\ UNCHANGED <<call, ret, inflight>>

GotoDefinition(uri, position) ==
    /\ files' = get_file(files, uri)
    /\ last' = Request("goto_definition", uri, "", Some(position),
                       definition_response(files, uri, position), <<>>, FALSE)
    /\ UNCHANGED <<call, ret, inflight>>

DocumentSymbol(uri) ==
    /\ files' = get_file(files, uri)
    /\ last' = Request("document_symbol", uri, "", None, document_symbol(files, uri),
                       <<>>, FALSE)
    /\ UNCHANGED <<call, ret, inflight>>

\* the orders in which a HashMap may yield its keys
KeyOrders(S) ==
    {o \in [1..Cardinality(S) -> S] : \A i, j \in 1..Cardinality(S) : o[i] = o[j] => i = j}

\* faulty variant: only the file the map yields first contributes
symbol_concat_first(fs, order, i) ==
    IF i > Len(order) THEN <<>> ELSE fs[order[i]].symbols

RECURSIVE symbol_concat(_, _, _)
symbol_concat(fs, order, i) ==
    IF i > Len(order) THEN <<>>
    ELSE fs[order[i]].symbols \o symbol_concat(fs, order, i + 1)

\* symbol: the symbol lists of all files, in the map's iteration order
Symbol ==
    /\ \E order \in KeyOrders(DOMAIN files) :
           last' = Request("symbol", "", "", None,
                           Some(symbol_concat(files, order, 1)), <<>>, FALSE)
    /\ UNCHANGED <<files, call, ret, inflight>>

\* the cursor of a completion request lies on the text the server holds
Completion(uri, position) ==
    /\ CursorOnText(get_file(files, uri)[uri].content, position)
    /\ files' = get_file(files, uri)
    /\ last' = Request("completion", uri, "", Some(position),
                       completion_response(files, uri, position), <<>>, FALSE)
    /\ UNCHANGED <<call, ret, inflight>>

Next ==
    \/ \E uri \in Uris : \E read \in {None} \cup {Some(d) : d \in TextsOf(uri)} :
           DidOpen(uri, read)
    \/ \E uri \in Uris : \E d \in TextsOf(uri) : DidChange(uri, d)
    \/ \E uri \in Uris : DidClose(uri)
    \/ \E uri \in Uris, position \in QueryPositions : HoverRequest(uri, position)
    \/ \E uri \in Uris, position \in QueryPositions : GotoDefinition(uri, position)
    \/ \E uri \in Uris : DocumentSymbol(uri)
    \/ Symbol
    \/ \E uri \in Uris, position \in CompletionPositions : Completion(uri, position)

Spec == Init /\ [][Next]_vars

(***************************************************************************)
(* The position mapper on its own: a call of one lib.rs function with      *)
(* arguments drawn from all locations of the (narrowed) u32 range.         *)
(***************************************************************************)
RECURSIVE NameOfLen(_)
NameOfLen(n) == IF n = 0 THEN "" ELSE "n" \o NameOfLen(n - 1)

LibLocs == {Loc(l, c) : l \in 0..(U32Mod - 1), c \in 0..(U32Mod - 1)}

LibCalls ==
    {[fn |-> "pos", loc |-> loc] : loc \in LibLocs}
    \cup {[fn |-> "range_name", loc |-> loc, name |-> NameOfLen(n)] :
             loc \in LibLocs, n \in 0..MaxNameLen}
    \cup {[fn |-> "token", tok |-> Tok("IntLit", NameOfLen(n), loc[1], loc[2])] :
             loc \in LibLocs, n \in 0..MaxNameLen}

InitLib ==
    /\ files = << >>
    /\ last = NoRequest
    /\ call \in LibCalls
    /\ ret = None
    /\ inflight = Idle

CallPos ==
    /\ call.fn = "pos" /\ ret = None
    /\ ret' = Some(pos(call.loc))
    /\ UNCHANGED <<files, last, call, inflight>>

CallRangeName ==
    /\ call.fn = "range_name" /\ ret = None
    /\ ret' = Some(range_name(call.loc, call.name))
    /\ UNCHANGED <<files, last, call, inflight>>

CallToken ==
    /\ call.fn = "token" /\ ret = None
    /\ ret' = Some(token(call.tok))
    /\ UNCHANGED <<files, last, call, inflight>>

NextLib == CallPos \/ CallRangeName \/ CallToken

SpecLib == InitLib /\ [][NextLib]_vars

(***************************************************************************)
(* The range query on its own: hover and goto_definition scan an arbitrary *)
(* annotation list.  The payload of entry i is the tag i, so that the      *)
(* entry a scan selects is told apart from every other entry.              *)
(***************************************************************************)
ScanPositions == {Position(l, c) : l \in 0..1, c \in 0..1}

\* a range has start <= end
ScanRanges == {r \in {Range(s, e) : s \in ScanPositions, e \in ScanPositions} :
                  PosLe(r.start, r.end)}

ScanLists ==
    UNION {{[i \in 1..n |-> <<rs[i], i>>] : rs \in [1..n -> ScanRanges]} : n \in 0..MaxLen}

InitQuery ==
    /\ files = << >>
    /\ last = NoRequest
    /\ call \in {[fn |-> "query", list |-> l, position |-> p] :
                    l \in ScanLists, p \in ScanPositions}
    /\ ret = None
    /\ inflight = Idle

QueryHover ==
    /\ call.fn = "query" /\ ret = None
    /\ ret' = Some([fn |-> "hover",
                    best |-> hover_scan(call.list, call.position, 1, None),
                    out |-> hover(call.list, call.position)])
    /\ UNCHANGED <<files, last, call, inflight>>

QueryDefinition ==
    /\ call.fn = "query" /\ ret = None
    /\ ret' = Some([fn |-> "goto_definition",
                    best |-> definition_scan(call.list, call.position, 1, None),
                    out |-> goto_definition(call.list, "", call.position)])
    /\ UNCHANGED <<files, last, call, inflight>>

NextQuery == QueryHover \/ QueryDefinition

SpecQuery == InitQuery /\ [][NextQuery]_vars

(***************************************************************************)
(* The server with handlers on several threads.  update takes the lock     *)
(* twice: once to store the token hovers and the text, and, after parsing  *)
(* and type checking without the lock, once more to store the symbols, the *)
(* AST hovers, the ranges and the definitions.  Each lock section is one   *)
(* step; a query holds the lock from start to end and is one step.         *)
(***************************************************************************)
ConcUris == {"file:///a.decaf"}

ConcTexts == {"Main", "Var", "Bad"}

\* update up to the end of its first lock section
UpdateLock1(t, uri, d) ==
    /\ inflight[t] = None
    /\ files' = update_lock1(files, uri, Docs[d])
    /\ inflight' = [inflight EXCEPT ![t] = Some([uri |-> uri, doc |-> d])]
    /\ last' = Request("update_lock1", uri, d, None, None, <<>>, FALSE)
    /\ UNCHANGED <<call, ret>>

\* the rest of update: parse, type check, publish, second lock section
UpdateLock2(t) ==
    /\ inflight[t] # None
    /\ LET uri == inflight[t][1].uri
           d == inflight[t][1].doc
       IN  /\ files' = update_lock2(files, uri, Docs[d])
           /\ last' = Request("did_change", uri, d, None, None,
                              update_publish(uri, Docs[d]), FALSE)
    /\ inflight' = [inflight EXCEPT ![t] = None]
    /\ UNCHANGED <<call, ret>>

NextConc ==
    \/ \E t \in Updaters, uri \in ConcUris, d \in ConcTexts : UpdateLock1(t, uri, d)
    \/ \E t \in Updaters : UpdateLock2(t)
    \/ \E uri \in ConcUris, position \in QueryPositions : HoverRequest(uri, position)
    \/ \E uri \in ConcUris, position \in QueryPositions : GotoDefinition(uri, position)
    \/ \E uri \in ConcUris : DocumentSymbol(uri)

SpecConc == Init /\ [][NextConc]_vars

(***************************************************************************)
(* Properties                                                              *)
(***************************************************************************)
\* range b lies inside range a and is not a
StrictlyInside(b, a) ==
    /\ PosLe(a.start, b.start)
    /\ PosLe(b.end, a.end)
    /\ b # a

\* the entries of the scanned list that contain the query point
Containing == {i \in 1..Len(call.list) : Contains(call.list[i][1], call.position)}

\* what the handler returns when its scan selects entry e
Returned(fn, e) ==
    IF fn = "hover" THEN Some(e[2]) ELSE Some([uri |-> "", range |-> e[2]])

\* C1: nesting tie-break of the range query (hover and goto_definition).  In
\* every list, in every order, when entries A and B both contain the point and
\* B lies strictly inside A, the scan never selects A; when A and B are the only
\* entries containing the point the scan selects B and the handler returns B's
\* payload, whichever of the two comes first.
C1_NestingTieBreak ==
    ret # None =>
        \A a \in Containing : \A b \in Containing :
            StrictlyInside(call.list[b][1], call.list[a][1]) =>
                /\ ret[1].best # Some(call.list[a])
                /\ Containing = {a, b} =>
                      /\ ret[1].best = Some(call.list[b])
                      /\ ret[1].out = Returned(ret[1].fn, call.list[b])

\* hover has scanned a list of three entries where the inner entry B comes
\* before the outer entry A, and selected B
C1_Witness ==
    /\ ret # None
    /\ ret[1].fn = "hover"
    /\ Len(call.list) = 3
    /\ \E a \in Containing : \E b \in Containing :
          /\ b < a
          /\ StrictlyInside(call.list[b][1], call.list[a][1])
          /\ ret[1].best = Some(call.list[b])

\* C9: position mapping never underflows.  pos maps every location with
\* line = 0 or column = 0 to position (0, 0), and every location with line >= 1
\* and column >= 1 to (line - 1, column - 1).
C9_PosNeverUnderflows ==
    (call.fn = "pos" /\ ret # None) =>
        IF call.loc[1] = 0 \/ call.loc[2] = 0
        THEN ret[1] = [line |-> 0, character |-> 0]
        ELSE ret[1] = [line |-> call.loc[1] - 1, character |-> call.loc[2] - 1]

\* pos has mapped a location with line >= 1 and column = 0
C9_Witness ==
    /\ call.fn = "pos"
    /\ ret = Some([line |-> 0, character |-> 0])
    /\ call.loc[1] >= 1
    /\ call.loc[2] = 0

\* C10 as stated: for every location, the unknown sentinel included, range_name
\* starts at pos(L) and ends on the same line, n characters after the start.
C10_NamedRangeEveryLocation ==
    (call.fn = "range_name" /\ ret # None) =>
        /\ ret[1].start = pos(call.loc)
        /\ ret[1].end.line = ret[1].start.line
        /\ ret[1].end.character = ret[1].start.character + Len(call.name)

\* C10, amended: for every location with line >= 1 and column >= 1 and every
\* name of byte length n with column + n within the u32 range, range_name
\* starts at (line - 1, column - 1) and ends on the same line, n characters
\* after the start.
C10_NamedRange ==
    (/\ call.fn = "range_name" /\ ret # None
     /\ call.loc[1] >= 1 /\ call.loc[2] >= 1
     /\ call.loc[2] + Len(call.name) < U32Mod) =>
        /\ ret[1].start = [line |-> call.loc[1] - 1, character |-> call.loc[2] - 1]
        /\ ret[1].end.line = ret[1].start.line
        /\ ret[1].end.character = ret[1].start.character + Len(call.name)

\* range_name has been applied to a proper location and a name of the greatest
\* length drawn
C10_Witness ==
    /\ call.fn = "range_name" /\ ret # None
    /\ call.loc[1] >= 1 /\ call.loc[2] >= 1
    /\ Len(call.name) = MaxNameLen
    /\ call.loc[2] + Len(call.name) < U32Mod
    /\ ret[1].end.character = call.loc[2] - 1 + MaxNameLen

\* the request that ran last was an update with text d (did_change, or a
\* did_open whose file could be read)
Updated(rq) == rq.op \in UpdateOps /\ rq.doc # ""

\* the protocol position of a 1-based location, (0, 0) for the unknown sentinel
MappedPosition(loc) ==
    IF loc[1] = 0 \/ loc[2] = 0
    THEN [line |-> 0, character |-> 0]
    ELSE [line |-> loc[1] - 1, character |-> loc[2] - 1]

\* the stored lists of uri as the queries see them (empty without an entry)
SymbolsOf(fs, uri) == IF uri \in DOMAIN fs THEN fs[uri].symbols ELSE <<>>
HoversOf(fs, uri) == IF uri \in DOMAIN fs THEN fs[uri].hovers ELSE <<>>
DefinitionsOf(fs, uri) == IF uri \in DOMAIN fs THEN fs[uri].definitions ELSE <<>>
ContentOf(fs, uri) == IF uri \in DOMAIN fs THEN fs[uri].content ELSE <<>>

\* C2: a parse failure leaves the semantic index untouched.  After an update of
\* uri with a text whose parse fails, the symbol list and the definition links
\* of uri are what they were before, and document_symbol and goto_definition
\* answer as before.
C2_ParseFailureKeepsIndex ==
    [][(Updated(last') /\ ~Docs[last'.doc].parse.ok) =>
          /\ SymbolsOf(files', last'.uri) = SymbolsOf(files, last'.uri)
          /\ DefinitionsOf(files', last'.uri) = DefinitionsOf(files, last'.uri)
          /\ document_symbol(files', last'.uri) = document_symbol(files, last'.uri)
          /\ \A p \in QueryPositions :
                definition_response(files', last'.uri, p)
                    = definition_response(files, last'.uri, p)]_vars

\* a text whose parse fails has been stored over an index that holds symbols
\* and definition links
C2_Witness ==
    /\ Updated(last)
    /\ ~Docs[last.doc].parse.ok
    /\ files[last.uri].content = Docs[last.doc].content
    /\ files[last.uri].symbols # <<>>
    /\ files[last.uri].definitions # <<>>

\* the symbols of a program in declaration order: each class, then its members
ClassSymbol(uri, c) ==
    [name |-> c.name, kind |-> "Class",
     location |-> [uri |-> uri,
                   range |-> [start |-> MappedPosition(c.loc),
                              end |-> MappedPosition(c.end)]],
     container_name |-> None]

MemberSymbol(uri, c, f) ==
    LET d == IF f.kind = "FuncDef" THEN f.func ELSE f.var
    IN  [name |-> d.name,
         kind |-> IF f.kind = "FuncDef" THEN "Method" ELSE "Field",
         location |-> [uri |-> uri,
                       range |-> [start |-> MappedPosition(d.loc),
                                  end |-> MappedPosition(d.loc)]],
         container_name |-> Some(c.name)]

RECURSIVE DeclarationOrder(_, _, _)
DeclarationOrder(uri, classes, i) ==
    IF i > Len(classes) THEN <<>>
    ELSE <<ClassSymbol(uri, classes[i])>>
         \o [k \in 1..Len(classes[i].field) |->
                MemberSymbol(uri, classes[i], classes[i].field[k])]
         \o DeclarationOrder(uri, classes, i + 1)

\* the two symbols of `class Main { void main() { } }`
MainClassSymbol(uri) ==
    [name |-> "Main", kind |-> "Class",
     location |-> [uri |-> uri,
                   range |-> [start |-> [line |-> 0, character |-> 0],
                              end |-> [line |-> 0, character |-> 29]]],
     container_name |-> None]

MainMethodSymbol(uri) ==
    [name |-> "main", kind |-> "Method",
     location |-> [uri |-> uri,
                   range |-> [start |-> [line |-> 0, character |-> 18],
                              end |-> [line |-> 0, character |-> 18]]],
     container_name |-> Some("Main")]

\* C3 as stated: after a successful update document_symbol lists the symbols in
\* declaration order, each class before its members; for
\* `class Main { void main() { } }` the list is [Class Main, Method main].
C3_DeclarationOrder ==
    (Updated(last) /\ Docs[last.doc].parse.ok) =>
        /\ document_symbol(files, last.uri)
              = Some(DeclarationOrder(last.uri, Docs[last.doc].parse.program.class, 1))
        /\ last.doc = "Main" =>
              document_symbol(files, last.uri)
                  = Some(<<MainClassSymbol(last.uri), MainMethodSymbol(last.uri)>>)

\* C3, amended: after a successful update document_symbol lists the symbols in
\* reverse declaration order: later declarations before earlier ones, each
\* class after its members; for `class Main { void main() { } }` the list is
\* [Method main (container Main), Class Main (full class span, no container)].
C3_ReverseDeclarationOrder ==
    (Updated(last) /\ Docs[last.doc].parse.ok) =>
        /\ document_symbol(files, last.uri)
              = Some(Reverse(DeclarationOrder(last.uri,
                                              Docs[last.doc].parse.program.class, 1)))
        /\ last.doc = "Main" =>
              document_symbol(files, last.uri)
                  = Some(<<MainMethodSymbol(last.uri), MainClassSymbol(last.uri)>>)

\* a text with two classes, a field and a method has been indexed
C3_Witness ==
    /\ Updated(last)
    /\ last.doc = "Two"
    /\ Len(files[last.uri].symbols) = 4
    /\ files[last.uri].symbols[1].name = "B"
    /\ files[last.uri].symbols[4].name = "A"

\* the identifier run that ends at the cursor: the longest suffix of part made
\* of identifier characters
IdentChars == Alphabetic \cup {"0","1","2","3","4","5","6","7","8","9","_"}

IdentRun(part) ==
    LET stops == {i \in 1..Len(part) : part[i] \notin IdentChars}
        from == IF stops = {} THEN 1
                ELSE 1 + CHOOSE i \in stops : \A j \in stops : j <= i
    IN  SubSeq(part, from, Len(part))

\* the items of the built-ins that start with run, in the order of the set
PrefixItems(run) ==
    LET item(b) == [label |-> b.label,
                    insert_text |-> IF b.label = "Print" THEN "Print($1)"
                                    ELSE b.label \o "()"]
        RECURSIVE from(_)
        from(i) ==
            IF i > Len(Builtins) THEN <<>>
            ELSE (IF Len(run) <= Len(Builtins[i].chars)
                     /\ \A k \in 1..Len(run) : Builtins[i].chars[k] = run[k]
                  THEN <<item(Builtins[i])>> ELSE <<>>) \o from(i + 1)
    IN  from(1)

\* the text before the cursor of the completion request rq, on the text the
\* server held when it ran
PartBefore(content, position) ==
    LET lines == SplitLines(content, 1, <<>>)
    IN  IF position.line < Len(lines)
        THEN SubSeq(lines[position.line + 1], 1, position.character)
        ELSE <<>>

\* C4: completion filters the built-ins by prefix match on the partial
\* identifier before the cursor: the response holds exactly the built-ins that
\* start with the whole identifier run ending at the cursor; with `Pri` before
\* the cursor it is the single item Print with insert text Print($1).
C4_CompletionByPrefix ==
    (last.op = "completion"
        /\ IdentRun(PartBefore(files[last.uri].content, last.position[1])) # <<>>) =>
        /\ last.response
              = Some(PrefixItems(IdentRun(PartBefore(files[last.uri].content,
                                                     last.position[1]))))
        /\ PartBefore(files[last.uri].content, last.position[1]) = <<"P", "r", "i">> =>
              last.response
                  = Some(<<[label |-> "Print", insert_text |-> "Print($1)"]>>)

\* C5: update is idempotent.  When an update hands uri the text the previous
\* request handed it, the symbol list, the hover list and the definition links
\* of uri (and the whole index) are the same after the second update as after
\* the first.
C5_UpdateIdempotent ==
    [][(Updated(last') /\ last'.again) =>
          /\ SymbolsOf(files', last'.uri) = SymbolsOf(files, last'.uri)
          /\ HoversOf(files', last'.uri) = HoversOf(files, last'.uri)
          /\ DefinitionsOf(files', last'.uri) = DefinitionsOf(files, last'.uri)
          /\ files' = files]_vars

\* the same parsing text has been handed to uri twice in a row; the hover list
\* holds the token hovers and the AST hovers
C5_Witness ==
    /\ Updated(last)
    /\ last.again
    /\ last.doc = "Var"
    /\ Len(files[last.uri].hovers) > Len(token_hovers(Docs["Var"].tokens, 1, <<>>))
    /\ files[last.uri].definitions # <<>>

\* the references of each text that resolved to a declaration: the location
\* and the name of the reference, the location and the name of the declaration
ResolvedReferences ==
    [Main |-> {},
     Var  |-> {[loc |-> <<4, 3>>, name |-> "x", decl |-> <<3, 7>>, declared |-> "x"],
               [loc |-> <<4, 7>>, name |-> "x", decl |-> <<3, 7>>, declared |-> "x"]},
     Two  |-> {[loc |-> <<4, 3>>, name |-> "f", decl |-> <<2, 6>>, declared |-> "f"]},
     Bad  |-> {},
     Pri  |-> {}]

\* the range of a name of n bytes at a 1-based location
NameRange(loc, name) ==
    [start |-> [line |-> loc[1] - 1, character |-> loc[2] - 1],
     end |-> [line |-> loc[1] - 1, character |-> loc[2] - 1 + Len(name)]]

\* the positions of a one-line range
PositionsIn(r) ==
    {[line |-> r.start.line, character |-> c] :
        c \in r.start.character..r.end.character}

\* C6: goto-definition through a definition link.  After a text is indexed,
\* goto_definition at every position of the name range of every reference that
\* resolved returns the declaration's name range (from the declaration's
\* location, over the declared name's length); a goto_definition request inside
\* the use range of a stored link returns that link's target.
C6_GotoDefinitionThroughLink ==
    /\ (Updated(last) /\ Docs[last.doc].parse.ok) =>
          \A ref \in ResolvedReferences[last.doc] :
              \A p \in PositionsIn(NameRange(ref.loc, ref.name)) :
                  definition_response(files, last.uri, p)
                      = Some([uri |-> last.uri,
                              range |-> NameRange(ref.decl, ref.declared)])
    /\ last.op = "goto_definition" =>
          \A k \in 1..Len(files[last.uri].definitions) :
              Contains(files[last.uri].definitions[k][1], last.position[1]) =>
                  last.response
                      = Some([uri |-> last.uri,
                              range |-> files[last.uri].definitions[k][2]])

\* goto_definition on the second use of x in `int x; x = x + 1;` has returned
\* the range of the declaration of x
C6_Witness ==
    /\ last.op = "goto_definition"
    /\ last.position = Some([line |-> 3, character |-> 6])
    /\ files[last.uri].content = Docs["Var"].content
    /\ last.response
          = Some([uri |-> last.uri,
                  range |-> [start |-> [line |-> 2, character |-> 6],
                             end |-> [line |-> 2, character |-> 7]]])

\* C7: close clears the symbols only.  After did_close(uri) the symbol list of
\* uri is empty and document_symbol returns the empty list; the hover list,
\* the definition links and the stored text are unchanged, and hover and
\* goto_definition answer as before.
C7_CloseClearsSymbolsOnly ==
    [][last'.op = "did_close" =>
          /\ SymbolsOf(files', last'.uri) = <<>>
          /\ document_symbol(files', last'.uri) = Some(<<>>)
          /\ HoversOf(files', last'.uri) = HoversOf(files, last'.uri)
          /\ DefinitionsOf(files', last'.uri) = DefinitionsOf(files, last'.uri)
          /\ ContentOf(files', last'.uri) = ContentOf(files, last'.uri)
          /\ \A p \in QueryPositions :
                /\ hover_response(files', last'.uri, p)
                      = hover_response(files, last'.uri, p)
                /\ definition_response(files', last'.uri, p)
                      = definition_response(files, last'.uri, p)]_vars

\* a document with hovers and definition links has been closed
C7_Witness ==
    /\ last.op = "did_close"
    /\ last.uri \in DOMAIN files
    /\ files[last.uri].symbols = <<>>
    /\ files[last.uri].hovers # <<>>
    /\ files[last.uri].definitions # <<>>

\* C8: diagnostics publication.  Every update publishes exactly one diagnostics
\* list, for its uri; the list is empty when parsing and type checking both
\* succeed, and after a parse failure it holds one diagnostic per parse error,
\* with the zero-width range at the error's mapped location and the error's
\* message.
C8_DiagnosticsPublished ==
    Updated(last) =>
        /\ Len(last.published) = 1
        /\ last.published[1].uri = last.uri
        /\ (Docs[last.doc].parse.ok /\ Docs[last.doc].typeck = <<>>) =>
              last.published[1].diag = <<>>
        /\ ~Docs[last.doc].parse.ok =>
              /\ Len(last.published[1].diag) = Len(Docs[last.doc].parse.errors)
              /\ \A i \in 1..Len(Docs[last.doc].parse.errors) :
                    last.published[1].diag[i]
                        = [range |-> [start |-> MappedPosition(Docs[last.doc].parse.errors[i].loc),
                                      end |-> MappedPosition(Docs[last.doc].parse.errors[i].loc)],
                           message |-> Docs[last.doc].parse.errors[i].msg]

\* the unclosed `class Main {` has been handed over and one diagnostic published
C8_Witness ==
    /\ last.op = "did_change"
    /\ last.doc = "Bad"
    /\ Len(last.published) = 1
    /\ Len(last.published[1].diag) = 1
    /\ last.published[1].diag[1].range.start = [line |-> 0, character |-> 12]

\* p comes no later than q: on an earlier line, or on the same line at no
\* greater a character
LexLe(p, q) ==
    p.line < q.line \/ (p.line = q.line /\ p.character <= q.character)

\* the entries of the scanned list whose range [start, end] holds the query
\* point, both ends included
Matching ==
    {i \in 1..Len(call.list) :
        /\ LexLe(call.list[i][1].start, call.position)
        /\ LexLe(call.position, call.list[i][1].end)}

\* C11: reflexive inclusive containment.  A query (hover or goto_definition)
\* returns a match exactly when some entry's range holds the point, both ends
\* included, under the lexicographic order on (line, character); the entry it
\* selects is such an entry; and whenever the list holds an entry of zero-width
\* range [P, P], the query at P returns a match.
C11_InclusiveContainment ==
    ret # None =>
        /\ (ret[1].best # None) <=> (Matching # {})
        /\ (ret[1].out # None) <=> (Matching # {})
        /\ ret[1].best # None => \E i \in Matching : ret[1].best = Some(call.list[i])
        /\ (\E i \in 1..Len(call.list) :
                call.list[i][1] = Range(call.position, call.position))
              => ret[1].best # None /\ ret[1].out # None

\* goto_definition has scanned a list whose only entry holding the point is the
\* zero-width range at the point, and selected it
C11_Witness ==
    /\ ret # None
    /\ ret[1].fn = "goto_definition"
    /\ Len(call.list) >= 2
    /\ \E i \in 1..Len(call.list) :
          /\ call.list[i][1] = Range(call.position, call.position)
          /\ Matching = {i}
          /\ ret[1].best = Some(call.list[i])
          /\ ret[1].out = Returned("goto_definition", call.list[i])

\* the symbols of a workspace response that lie in the document uri, in the
\* order of the response
SymbolsIn(response, uri) == SelectSeq(response, LAMBDA sym : sym.location.uri = uri)

\* the symbols of one document stand next to each other in the response
Contiguous(response) ==
    \A i, j, k \in 1..Len(response) :
        (i < j /\ j < k /\ response[i].location.uri = response[k].location.uri)
            => response[j].location.uri = response[i].location.uri

\* C12: workspace symbols are the concatenation of the per-document symbol
\* lists.  Every answer of symbol holds, for each URI, exactly the symbol list
\* the index holds for that URI, in that list's order and in one piece, and
\* nothing else (no order between documents is promised); a URI closed by the
\* request just before contributes no symbol.
C12_WorkspaceSymbols ==
    [][last'.op = "symbol" =>
          LET response == last'.response[1]
          IN  /\ \A uri \in Uris : SymbolsIn(response, uri) = SymbolsOf(files', uri)
              /\ \A i \in 1..Len(response) : response[i].location.uri \in Uris
              /\ Contiguous(response)
              /\ last.op = "did_close" => SymbolsIn(response, last.uri) = <<>>]_vars

\* symbol has answered with the symbols of two documents, those of the one
\* with the greater list first
C12_Witness ==
    /\ last.op = "symbol"
    /\ \E u1, u2 \in DOMAIN files :
          /\ u1 # u2
          /\ Len(files[u1].symbols) > Len(files[u2].symbols)
          /\ files[u2].symbols # <<>>
          /\ last.response = Some(files[u1].symbols \o files[u2].symbols)

QueryOps == {"hover", "goto_definition", "document_symbol", "symbol", "completion"}

\* what an update of uri with the document doc stores when it runs alone
TokenHoversOf(doc) == token_hovers(doc.tokens, 1, <<>>)
IndexOf(uri, doc) == file_state_of(uri, doc.parse.program)

\* the index of uri stands between the two lock sections of an update whose
\* text parses: the hover list and the text are the new text's, the symbols
\* and the definitions are those of an earlier text
Intermediate(uri) ==
    \E t \in Updaters :
        /\ inflight[t] # None
        /\ inflight[t][1].uri = uri
        /\ LET doc == Docs[inflight[t][1].doc]
           IN  /\ doc.parse.ok
               /\ ContentOf(files, uri) = doc.content
               /\ HoversOf(files, uri) = TokenHoversOf(doc)
               /\ SymbolsOf(files, uri) # <<>>
               /\ SymbolsOf(files, uri) # IndexOf(uri, doc).symbols
               /\ DefinitionsOf(files, uri) # IndexOf(uri, doc).definitions

\* C13: updates are atomic with respect to queries.  No query (hover,
\* goto_definition, document_symbol) runs on an index of its URI whose hover
\* list and text come from the new text of an update while the symbols and
\* the definitions still come from the text before.
C13_UpdatesAtomic ==
    last.op \in QueryOps => ~Intermediate(last.uri)

\* the index of uri is what an update with one text leaves when it runs alone
\* (on a text that does not parse the symbols and the definitions stay those of
\* the index before, whatever they were)
IndexOfOneText(uri) ==
    \E d \in ConcTexts :
        /\ files[uri].content = Docs[d].content
        /\ IF Docs[d].parse.ok
           THEN /\ files[uri].hovers = TokenHoversOf(Docs[d]) \o IndexOf(uri, Docs[d]).hovers
                /\ files[uri].symbols = IndexOf(uri, Docs[d]).symbols
                /\ files[uri].definitions = IndexOf(uri, Docs[d]).definitions
           ELSE files[uri].hovers = TokenHoversOf(Docs[d])

\* C14: racing edits overwrite, never mix.  When an update of a URI ends and
\* no other update is in flight, the index of the URI is entirely that of one
\* text: never the token hovers of
\* one text followed by the AST hovers of another or of both, never the text of
\* one with the symbols of another text that parses.
C14_RacingEditsNeverMix ==
    (inflight = Idle /\ last.op = "did_change") => IndexOfOneText(last.uri)

\* C15: queries are read-only.  hover, goto_definition, document_symbol,
\* symbol and completion leave the whole index as it was, the set of URIs that
\* have an entry included: no query brings an entry into existence.
C15_QueriesReadOnly ==
    [][last'.op \in QueryOps => (files' = files /\ DOMAIN files' = DOMAIN files)]_vars

\* the hover list of `class Main { void main() { } }`: the keywords class and
\* void, then the class name and the method name
MainHovers ==
    << <<Range(Position(0, 0), Position(0, 4)), Hover("Class", None)>>,
       <<Range(Position(0, 13), Position(0, 16)), Hover("Void", None)>>,
       <<Range(Position(0, 0), Position(0, 4)),
         Hover("Main", Some(Range(Position(0, 0), Position(0, 29))))>>,
       <<Range(Position(0, 18), Position(0, 22)),
         Hover("main: void()", Some(Range(Position(0, 18), Position(0, 18))))>> >>

\* the hover list of `class Main {`: the keyword class
BadHovers ==
    << <<Range(Position(0, 0), Position(0, 4)), Hover("Class", None)>> >>

\* C16: hover list composition after sequential updates.  After an update of
\* uri with text T, whatever came before, the hover list of uri is the token
\* hovers of T followed by the AST hovers of T when T parses, and the token
\* hovers of T alone when it does not; no hover of an earlier text is left.
C16_HoverListComposition ==
    Updated(last) =>
        LET doc == Docs[last.doc]
        IN  /\ files[last.uri].hovers =
                  TokenHoversOf(doc)
                  \o (IF doc.parse.ok THEN IndexOf(last.uri, doc).hovers ELSE <<>>)
            /\ Len(files[last.uri].hovers) >= Len(TokenHoversOf(doc))
            /\ last.doc = "Main" => files[last.uri].hovers = MainHovers
            /\ last.doc = "Bad" => files[last.uri].hovers = BadHovers

\* a text that does not parse has been handed to a URI indexed before with a
\* text that parsed; the hover list is the keyword hover of the new text
C16_Witness ==
    /\ Updated(last)
    /\ last.doc = "Bad"
    /\ files[last.uri].symbols # <<>>
    /\ files[last.uri].hovers = BadHovers

\* range r lies inside range old; an equal range counts as inside
Inside(r, old) == LexLe(old.start, r.start) /\ LexLe(r.end, old.end)

\* no entry holding the point lies inside another entry holding the point
PairwiseNonNested ==
    \A a \in Matching : \A b \in Matching :
        a # b => ~Inside(call.list[a][1], call.list[b][1])

\* C17: first-encountered wins among non-nested candidates.  When the ranges
\* of the entries holding the point are pairwise non-nested, the query (hover
\* or goto_definition) returns the holding entry that comes first in the list.
C17_FirstEncounteredWins ==
    (ret # None /\ Matching # {} /\ PairwiseNonNested) =>
        LET first == CHOOSE i \in Matching : \A j \in Matching : i <= j
        IN  /\ ret[1].best = Some(call.list[first])
            /\ ret[1].out = Returned(ret[1].fn, call.list[first])

\* hover has scanned a list of three entries of which the second and the
\* third hold the point, overlap and are not nested, and selected the second
C17_Witness ==
    /\ ret # None
    /\ ret[1].fn = "hover"
    /\ Len(call.list) = 3
    /\ Matching = {2, 3}
    /\ PairwiseNonNested
    /\ ret[1].best = Some(call.list[2])
    /\ ret[1].out = Some(2)

\* the definition links of a text: one per reference that resolved, from the
\* reference's name range to the declaration's name range
LinksOf(d) ==
    {<<NameRange(ref.loc, ref.name), NameRange(ref.decl, ref.declared)>> :
        ref \in ResolvedReferences[d]}

\* the diagnostic of an error: a zero-width range at the mapped location, and
\* the error's message
ZeroWidthDiagnostic(err) ==
    [range |-> [start |-> MappedPosition(err.loc), end |-> MappedPosition(err.loc)],
     message |-> err.msg]

\* C18: type errors do not block indexing.  After an update of uri with a text
\* that parses but has type errors, the symbols and the definition links of
\* uri are those of the text, the AST hovers of the text follow its token
\* hovers, and one publish has been made, holding exactly one diagnostic per
\* type error: a zero-width range at the mapped location, with the error's
\* message.
C18_TypeErrorsDoNotBlockIndexing ==
    (Updated(last) /\ Docs[last.doc].parse.ok /\ Docs[last.doc].typeck # <<>>) =>
        LET doc == Docs[last.doc]
            file == files[last.uri]
        IN  /\ file.symbols = Reverse(DeclarationOrder(last.uri, doc.parse.program.class, 1))
            /\ file.symbols # <<>>
            /\ {file.definitions[k] : k \in 1..Len(file.definitions)} = LinksOf(last.doc)
            /\ Len(file.definitions) = Cardinality(LinksOf(last.doc))
            /\ file.hovers = TokenHoversOf(doc) \o IndexOf(last.uri, doc).hovers
            /\ Len(file.hovers) > Len(TokenHoversOf(doc))
            /\ Len(last.published) = 1
            /\ last.published[1].uri = last.uri
            /\ Len(last.published[1].diag) = Len(doc.typeck)
            /\ \A i \in 1..Len(doc.typeck) :
                  last.published[1].diag[i] = ZeroWidthDiagnostic(doc.typeck[i])

\* the text with the undeclared variable y has been indexed and its one type
\* error published at (3, 6)
C18_Witness ==
    /\ Updated(last)
    /\ last.doc = "Two"
    /\ Len(files[last.uri].symbols) = 4
    /\ Len(files[last.uri].definitions) = 1
    /\ last.published =
          << [uri |-> last.uri,
              diag |-> << [range |-> Range(Position(3, 6), Position(3, 6)),
                           message |-> "UndeclaredVar(\"y\")"] >>] >>

\* C19: token range formula.  For a token at the 1-based (line, col) with
\* line >= 1, col >= 1 and a piece of len >= 1 bytes, token returns
\* start = (line - 1, col - 1) and end = (line - 1, col + len - 2): the start
\* comes no later than the end, both lie on one line, and no subtraction goes
\* below zero.
C19_TokenRange ==
    (/\ call.fn = "token" /\ ret # None
     /\ call.tok.line >= 1 /\ call.tok.col >= 1 /\ Len(call.tok.piece) >= 1) =>
        /\ ret[1].start = [line |-> call.tok.line - 1, character |-> call.tok.col - 1]
        /\ ret[1].end = [line |-> call.tok.line - 1,
                         character |-> call.tok.col + Len(call.tok.piece) - 2]
        /\ LexLe(ret[1].start, ret[1].end)
        /\ ret[1].start.line = ret[1].end.line
        /\ ret[1].start.character >= 0 /\ ret[1].end.character >= 0

\* token has been applied to a token of one byte at line 1, column 1: start
\* and end are both (0, 0)
C19_Witness ==
    /\ call.fn = "token" /\ ret # None
    /\ call.tok.line = 1 /\ call.tok.col = 1 /\ Len(call.tok.piece) = 1
    /\ ret[1].start = [line |-> 0, character |-> 0]
    /\ ret[1].end = ret[1].start

\* C20: per-document isolation.  An update (did_open, did_change) or a
\* did_close of one URI, whatever the parse outcome, leaves the text, the
\* symbols, the hovers and the definitions of every other URI as they were,
\* and neither makes nor drops the entry of another URI.
C20_PerDocumentIsolation ==
    [][last'.op \in UpdateOps \cup {"did_close"} =>
          \A u2 \in Uris \ {last'.uri} :
              /\ u2 \in DOMAIN files' <=> u2 \in DOMAIN files
              /\ ContentOf(files', u2) = ContentOf(files, u2)
              /\ SymbolsOf(files', u2) = SymbolsOf(files, u2)
              /\ HoversOf(files', u2) = HoversOf(files, u2)
              /\ DefinitionsOf(files', u2) = DefinitionsOf(files, u2)]_vars

\* one URI has been closed while another URI holds an indexed text with its
\* symbols and hovers
C20_Witness ==
    /\ last.op = "did_close"
    /\ last.uri \in DOMAIN files
    /\ files[last.uri].symbols = <<>>
    /\ files[last.uri].hovers # <<>>
    /\ \E u2 \in DOMAIN files :
          /\ u2 # last.uri
          /\ files[u2].symbols # <<>>
          /\ files[u2].hovers # <<>>
          /\ files[u2].content # files[last.uri].content

\* the entries holding the point whose range is r
EqualTo(r) == {i \in Matching : call.list[i][1] = r}

\* the entry of S that comes last in the list
LastOf(S) == CHOOSE i \in S : \A j \in S : j <= i

\* C21 as stated: when two or more entries holding the point have the same
\* range and no entry holding the point lies strictly inside that range, the
\* query returns the last of them in list order.
C21_EqualRangesLastEntry ==
    ret # None =>
        \A i \in Matching :
            LET r == call.list[i][1]
            IN  (/\ Cardinality(EqualTo(r)) >= 2
                 /\ \A x \in Matching :
                       ~(Inside(call.list[x][1], r) /\ call.list[x][1] # r)) =>
                    /\ ret[1].best = Some(call.list[LastOf(EqualTo(r))])
                    /\ ret[1].out = Returned(ret[1].fn, call.list[LastOf(EqualTo(r))])

\* position p lies in range r, both ends included
Holds(r, p) == LexLe(r.start, p) /\ LexLe(p, r.end)

\* in the hover list update builds for a text that parses, wherever an AST
\* hover has the range of a token hover and every hover holding the point
\* has that range or encloses it, hover returns an AST hover of that range
AstHoverOverTokenHover ==
    \A d \in {x \in DocIds : Docs[x].parse.ok} : \A uri \in Uris :
        LET list == update(<< >>, uri, Docs[d])[uri].hovers
            nt == Len(TokenHoversOf(Docs[d]))
        IN  \A i \in 1..nt : \A j \in (nt + 1)..Len(list) :
                \A p \in {list[i][1].start, list[i][1].end} :
                    (/\ list[i][1] = list[j][1]
                     /\ \A x \in 1..Len(list) :
                           Holds(list[x][1], p) => Inside(list[i][1], list[x][1])) =>
                        \E k \in (nt + 1)..Len(list) :
                            /\ list[k][1] = list[i][1]
                            /\ \A m \in (k + 1)..Len(list) : list[m][1] # list[i][1]
                            /\ hover(list, p) = Some(list[k][2])

\* C21, amended: equal ranges resolve to the last entry.  When two or more
\* entries holding the point have the same range and every entry holding the
\* point has that range or encloses it, the query (hover or goto_definition)
\* returns the last of the entries of that range in list order; so an AST
\* hover with the range of a token hover is the one returned, the AST hovers
\* being appended after the token hovers.
C21_EqualRangesLastEnclosed ==
    /\ ret # None =>
          \A i \in Matching :
              LET r == call.list[i][1]
              IN  (/\ Cardinality(EqualTo(r)) >= 2
                   /\ \A x \in Matching : Inside(r, call.list[x][1])) =>
                      /\ ret[1].best = Some(call.list[LastOf(EqualTo(r))])
                      /\ ret[1].out = Returned(ret[1].fn, call.list[LastOf(EqualTo(r))])
    /\ AstHoverOverTokenHover

\* hover has scanned a list of three entries holding the point, the first and
\* the third of one range and the second enclosing it, and selected the third
C21_Witness ==
    /\ ret # None
    /\ ret[1].fn = "hover"
    /\ Len(call.list) = 3
    /\ Matching = {1, 2, 3}
    /\ call.list[1][1] = call.list[3][1]
    /\ call.list[2][1] # call.list[1][1]
    /\ Inside(call.list[1][1], call.list[2][1])
    /\ ret[1].best = Some(call.list[3])
    /\ ret[1].out = Some(3)
    /\ hover(update(<< >>, "file:///a.decaf", Docs["Main"])["file:///a.decaf"].hovers,
             Position(0, 0))
          = Some(Hover("Main", Some(Range(Position(0, 0), Position(0, 29)))))

====
